---------------------------- MODULE Spec2Model ----------------------------
(***************************************************************************)
(* Instruction-level model of the ferros boot path:                        *)
(*   - start()  (src/ferros/src/start.rs): core gate, stack setup, .bss    *)
(*     zeroing loop, branch to main;                                       *)
(*   - main()   (src/ferros/src/main.rs): wfe loop;                        *)
(*   - the two #[panic_handler] functions (src/ferros/src/main.rs and      *)
(*     src/ferros/src/panic_handler.rs).                                   *)
(* Every core executes the same instruction stream from reset; one step of *)
(* the model is one machine instruction of one core.                       *)
(***************************************************************************)
EXTENDS Integers, FiniteSets, Sequences, TLC

(***************************************************************************)
(* Bounds of the model.                                                    *)
(***************************************************************************)
\* size of the address space in 8-byte words; pointers wrap modulo its size in
\* bytes (2^64 on the hardware, 2^5 here: in both cases a multiple of 8)
MemWords == 4
\* MPIDR_EL1 values range over 0..MaxMpidr
MaxMpidr == 4
\* nesting depth up to which the recursion of main.rs's panic is followed
MaxPanicDepth == 2

(***************************************************************************)
(* Program constants.                                                      *)
(***************************************************************************)
\* "mov sp, #0x1FFF0000"
STACK_TOP == 536805376
\* "and x0, x0, 0b11"
AFF_MASK == 3
\* "str xzr, [x0], #8": bytes stored, and the post-index increment
STRIDE == 8

MemSize == MemWords * STRIDE
Addrs == 0 .. (MemSize - 1)
Words == 0 .. (MemWords - 1)
\* The cores leaving reset together.  No instruction of the image reads memory
\* or waits for another core, so cores interfere only through their stores;
\* every property below is about one core or about a pair of cores.
Cores == {1, 2}
MpidrValues == 0 .. MaxMpidr

\* mutant: the mask 0b1 in place of 0b11
AndMaskOneBit(x) == x % 2

\* mutant: and x0, x0, 0b111, three affinity bits
AndMaskThreeBits(x) == x % 8

\* x & 0b11 for a non-negative x: the mask is 2^k - 1, so the AND is a remainder
AndMask(x) == x % (AFF_MASK + 1)

\* bss_start is 8-byte aligned (kernel.ld, not part of the sources); the model
\* takes the first aligned address that leaves a word below the region
BssStarts == {STRIDE}
\* bss_end: every aligned address (below, at or above bss_start), and three
\* unaligned ones (half a word below bss_start, half a word and a word and a
\* half above it)
BssEnds == { e \in Addrs : e % STRIDE = 0 }
             \cup { STRIDE - 4, STRIDE + 4, 2 * STRIDE + 4 }

\* stack pointer values a core may hold when it leaves reset
SpResets == {0, 524288}

\* contents of memory at reset: a uniform non-zero pattern and a mixed one
Patterns == {"ff", "mixed"}
MemPattern(p) == IF p = "ff" THEN [a \in Addrs |-> 255]
                             ELSE [a \in Addrs |-> (a % 3) * 85]

\* the file whose #[panic_handler] is linked into the image
PanicHandlers == {"main.rs", "panic_handler.rs"}
\* stack consumed by one nested call of a panic function (build dependent)
FrameSizes == {0, 16}
\* the PanicInfo handed to the handler: with or without a message
Payloads == {"none", "message"}

VARIABLES
    mpidr,      \* [Cores -> MpidrValues]  MPIDR_EL1 of each core (read only)
    bss_start,  \* linker symbol bss_start
    bss_end,    \* linker symbol bss_end
    handler,    \* which #[panic_handler] the image contains
    pattern,    \* the pattern memory holds at reset
    spReset,    \* stack pointer of the cores at reset
    pc,         \* [Cores -> instruction label]
    x0,         \* [Cores -> Nat] register x0
    x1,         \* [Cores -> Nat] register x1
    zf,         \* [Cores -> BOOLEAN] the Z condition flag
    sp,         \* [Cores -> Int] stack pointer
    mem,        \* [Addrs -> 0..255] memory, byte addressed
    stores,     \* [Cores -> Nat] executions of the str instruction (history)
    writes,     \* [Words -> 0..2] stores received by each word, saturating (history)
    depth       \* [Cores -> 0..MaxPanicDepth] nesting of panic calls

vars == << mpidr, bss_start, bss_end, handler, pattern, spReset,
           pc, x0, x1, zf, sp, mem, stores, writes, depth >>

config == << mpidr, bss_start, bss_end, handler, pattern, spReset >>

\* memory contents at reset
mem0 == MemPattern(pattern)

\* the counter of str executions saturates one above the number of words
StoreCap == MemWords + 1

Min(a, b) == IF a < b THEN a ELSE b

(***************************************************************************)
(* Reset.  Cores are interchangeable, so they are numbered by increasing   *)
(* MPIDR_EL1 (hardware gives every core a distinct value).  x0, x1 and the *)
(* flags are architecturally UNKNOWN at reset; no instruction reads them   *)
(* before writing them, and the model starts them at 0 / FALSE.            *)
(***************************************************************************)
Boot ==
    /\ mpidr \in { f \in [Cores -> MpidrValues] :
                     \A c, d \in Cores : c < d => f[c] < f[d] }
    /\ bss_start \in BssStarts
    /\ bss_end \in BssEnds
    /\ pattern \in Patterns
    /\ spReset \in SpResets
    /\ pc = [c \in Cores |-> "mrs"]
    /\ x0 = [c \in Cores |-> 0]
    /\ x1 = [c \in Cores |-> 0]
    /\ zf = [c \in Cores |-> FALSE]
    /\ sp = [c \in Cores |-> spReset]
    /\ mem = MemPattern(pattern)
    /\ stores = [c \in Cores |-> 0]
    /\ writes = [w \in Words |-> 0]
    /\ depth = [c \in Cores |-> 0]

\* No instruction of start() or main() can panic, so the handler the image
\* links plays no part in a boot: Init takes the dedicated module's.
Init == Boot /\ handler = "panic_handler.rs"

(***************************************************************************)
(* start(): the gate.                                                      *)
(***************************************************************************)
\* mrs x0, MPIDR_EL1
Mrs(c) ==
    /\ pc[c] = "mrs"
    /\ x0' = [x0 EXCEPT ![c] = mpidr[c]]
    /\ pc' = [pc EXCEPT ![c] = "and"]
    /\ UNCHANGED << config, x1, zf, sp, mem, stores, writes, depth >>

\* and x0, x0, 0b11
And(c) ==
    /\ pc[c] = "and"
    /\ x0' = [x0 EXCEPT ![c] = AndMask(x0[c])]
    /\ pc' = [pc EXCEPT ![c] = "gate_cmp"]
    /\ UNCHANGED << config, x1, zf, sp, mem, stores, writes, depth >>

\* mutant: cmp x0, 1 (the core the comment of the branch names)
GateCmpOne(c) ==
    /\ pc[c] = "gate_cmp"
    /\ zf' = [zf EXCEPT ![c] = (x0[c] = 1)]
    /\ pc' = [pc EXCEPT ![c] = "gate_beq"]
    /\ UNCHANGED << config, x0, x1, sp, mem, stores, writes, depth >>

\* cmp x0, 0
GateCmp(c) ==
    /\ pc[c] = "gate_cmp"
    /\ zf' = [zf EXCEPT ![c] = (x0[c] = 0)]
    /\ pc' = [pc EXCEPT ![c] = "gate_beq"]
    /\ UNCHANGED << config, x0, x1, sp, mem, stores, writes, depth >>

\* mutant: b.ne 2f
GateBne(c) ==
    /\ pc[c] = "gate_beq"
    /\ pc' = [pc EXCEPT ![c] = IF zf[c] THEN "park_wfe" ELSE "mov_sp"]
    /\ UNCHANGED << config, x0, x1, zf, sp, mem, stores, writes, depth >>

\* b.eq 2f   (falls through into the parking loop)
GateBeq(c) ==
    /\ pc[c] = "gate_beq"
    /\ pc' = [pc EXCEPT ![c] = IF zf[c] THEN "mov_sp" ELSE "park_wfe"]
    /\ UNCHANGED << config, x0, x1, zf, sp, mem, stores, writes, depth >>

\* 1: wfe
ParkWfe(c) ==
    /\ pc[c] = "park_wfe"
    /\ pc' = [pc EXCEPT ![c] = "park_b"]
    /\ UNCHANGED << config, x0, x1, zf, sp, mem, stores, writes, depth >>

\* b 1b
ParkB(c) ==
    /\ pc[c] = "park_b"
    /\ pc' = [pc EXCEPT ![c] = "park_wfe"]
    /\ UNCHANGED << config, x0, x1, zf, sp, mem, stores, writes, depth >>

(***************************************************************************)
(* start(): stack setup and the zeroing pass.                              *)
(***************************************************************************)
\* mutant: mov sp, #0x1FFF000 (a digit short)
MovSpShort(c) ==
    /\ pc[c] = "mov_sp"
    /\ sp' = [sp EXCEPT ![c] = STACK_TOP \div 16]
    /\ pc' = [pc EXCEPT ![c] = "ldr_x0"]
    /\ UNCHANGED << config, x0, x1, zf, mem, stores, writes, depth >>

\* 2: mov sp, #0x1FFF0000
MovSp(c) ==
    /\ pc[c] = "mov_sp"
    /\ sp' = [sp EXCEPT ![c] = STACK_TOP]
    /\ pc' = [pc EXCEPT ![c] = "ldr_x0"]
    /\ UNCHANGED << config, x0, x1, zf, mem, stores, writes, depth >>

\* ldr x0, =bss_start
LdrX0(c) ==
    /\ pc[c] = "ldr_x0"
    /\ x0' = [x0 EXCEPT ![c] = bss_start]
    /\ pc' = [pc EXCEPT ![c] = "ldr_x1"]
    /\ UNCHANGED << config, x1, zf, sp, mem, stores, writes, depth >>

\* ldr x1, =bss_end
LdrX1(c) ==
    /\ pc[c] = "ldr_x1"
    /\ x1' = [x1 EXCEPT ![c] = bss_end]
    /\ pc' = [pc EXCEPT ![c] = "loop_cmp"]
    /\ UNCHANGED << config, x0, zf, sp, mem, stores, writes, depth >>

\* mutant: cmp x0, 0, the operand of the gate's compare
LoopCmpStale(c) ==
    /\ pc[c] = "loop_cmp"
    /\ zf' = [zf EXCEPT ![c] = (x0[c] = 0)]
    /\ pc' = [pc EXCEPT ![c] = "loop_beq"]
    /\ UNCHANGED << config, x0, x1, sp, mem, stores, writes, depth >>

\* 1: cmp x0, x1
LoopCmp(c) ==
    /\ pc[c] = "loop_cmp"
    /\ zf' = [zf EXCEPT ![c] = (x0[c] = x1[c])]
    /\ pc' = [pc EXCEPT ![c] = "loop_beq"]
    /\ UNCHANGED << config, x0, x1, sp, mem, stores, writes, depth >>

\* mutant: b.ne 1f
LoopBne(c) ==
    /\ pc[c] = "loop_beq"
    /\ pc' = [pc EXCEPT ![c] = IF zf[c] THEN "str" ELSE "b_main"]
    /\ UNCHANGED << config, x0, x1, zf, sp, mem, stores, writes, depth >>

\* b.eq 1f
LoopBeq(c) ==
    /\ pc[c] = "loop_beq"
    /\ pc' = [pc EXCEPT ![c] = IF zf[c] THEN "b_main" ELSE "str"]
    /\ UNCHANGED << config, x0, x1, zf, sp, mem, stores, writes, depth >>

\* the bytes a 64-bit store at address p covers
StoreRange(p) == { (p + i) % MemSize : i \in 0 .. (STRIDE - 1) }

\* mutant: str wzr, a 32-bit store
StoreZeroWord(m, p) ==
    [a \in Addrs |-> IF \E i \in 0 .. 3 : a = (p + i) % MemSize THEN 0 ELSE m[a]]

\* memory after a 64-bit store of xzr at address p
StoreZero(m, p) == [a \in Addrs |-> IF a \in StoreRange(p) THEN 0 ELSE m[a]]

\* mutant: post-index #16
PostIndexDouble(p) == (p + 2 * STRIDE) % MemSize

\* mutant: post-index #4
PostIndexHalf(p) == (p + 4) % MemSize

\* the post-indexed pointer: p + 8, in the width of an address
PostIndex(p) == (p + STRIDE) % MemSize

\* str xzr, [x0], #8
Str(c) ==
    /\ pc[c] = "str"
    /\ mem' = StoreZero(mem, x0[c])
    /\ x0' = [x0 EXCEPT ![c] = PostIndex(x0[c])]
    /\ stores' = [stores EXCEPT ![c] = Min(stores[c] + 1, StoreCap)]
    /\ writes' = [w \in Words |-> IF w = x0[c] \div STRIDE
                                    THEN Min(writes[w] + 1, 2) ELSE writes[w]]
    /\ pc' = [pc EXCEPT ![c] = "loop_b"]
    /\ UNCHANGED << config, x1, zf, sp, depth >>

\* mutant: b 2b, back to the stack setup
LoopBToStack(c) ==
    /\ pc[c] = "loop_b"
    /\ pc' = [pc EXCEPT ![c] = "mov_sp"]
    /\ UNCHANGED << config, x0, x1, zf, sp, mem, stores, writes, depth >>

\* b 1b
LoopB(c) ==
    /\ pc[c] = "loop_b"
    /\ pc' = [pc EXCEPT ![c] = "loop_cmp"]
    /\ UNCHANGED << config, x0, x1, zf, sp, mem, stores, writes, depth >>

\* 1: b main
BMain(c) ==
    /\ pc[c] = "b_main"
    /\ pc' = [pc EXCEPT ![c] = "main_wfe"]
    /\ UNCHANGED << config, x0, x1, zf, sp, mem, stores, writes, depth >>

(***************************************************************************)
(* main(): "1:", "wfe", "b 1b".                                            *)
(***************************************************************************)
\* 1: wfe
MainWfe(c) ==
    /\ pc[c] = "main_wfe"
    /\ pc' = [pc EXCEPT ![c] = "main_b"]
    /\ UNCHANGED << config, x0, x1, zf, sp, mem, stores, writes, depth >>

\* mutant: main branches back to start
MainBToStart(c) ==
    /\ pc[c] = "main_b"
    /\ pc' = [pc EXCEPT ![c] = "mrs"]
    /\ UNCHANGED << config, x0, x1, zf, sp, mem, stores, writes, depth >>

\* b 1b
MainB(c) ==
    /\ pc[c] = "main_b"
    /\ pc' = [pc EXCEPT ![c] = "main_wfe"]
    /\ UNCHANGED << config, x0, x1, zf, sp, mem, stores, writes, depth >>

\* one instruction of core c
Step(c) ==
    \/ Mrs(c) \/ And(c) \/ GateCmp(c) \/ GateBeq(c)
    \/ ParkWfe(c) \/ ParkB(c)
    \/ MovSp(c) \/ LdrX0(c) \/ LdrX1(c)
    \/ LoopCmp(c) \/ LoopBeq(c) \/ Str(c) \/ LoopB(c)
    \/ BMain(c)
    \/ MainWfe(c) \/ MainB(c)

Next == \E c \in Cores : Step(c)

Spec == Init /\ [][Next]_vars

\* a core never stops fetching instructions
FairSpec == Spec /\ \A c \in Cores : WF_vars(Step(c))

(***************************************************************************)
(* The Fault Sink.  The repository has two #[panic_handler] functions; an  *)
(* image links exactly one of them (two are a build error).  Nothing in    *)
(* start() or main() panics, so the invocation is an input: SpecFault lets *)
(* a core be sent into the linked handler from any instruction.            *)
(***************************************************************************)
PanicLabels == {"panic_wfe", "panic_loop", "unimplemented"}

\* first instruction of the linked handler
PanicEntry(h) == IF h = "panic_handler.rs" THEN "panic_wfe" ELSE "unimplemented"

\* the handler is called with a PanicInfo, which both functions ignore
Panic(c, info) ==
    /\ pc[c] \notin PanicLabels
    /\ pc' = [pc EXCEPT ![c] = PanicEntry(handler)]
    /\ depth' = [depth EXCEPT ![c] = 1]
    /\ UNCHANGED << config, x0, x1, zf, sp, mem, stores, writes >>

\* panic_handler.rs: loop { asm::wfe(); }
PanicWfe(c) ==
    /\ pc[c] = "panic_wfe"
    /\ pc' = [pc EXCEPT ![c] = "panic_loop"]
    /\ UNCHANGED << config, x0, x1, zf, sp, mem, stores, writes, depth >>

PanicLoop(c) ==
    /\ pc[c] = "panic_loop"
    /\ pc' = [pc EXCEPT ![c] = "panic_wfe"]
    /\ UNCHANGED << config, x0, x1, zf, sp, mem, stores, writes, depth >>

\* main.rs: unimplemented!() panics, which calls the #[panic_handler] again:
\* the function re-enters itself, one level deeper.  The nested call may or
\* may not take a stack frame, depending on the build; a frame is saved at the
\* stack pointer, outside the window of memory the model keeps.
Unimplemented(c) ==
    /\ pc[c] = "unimplemented"
    /\ depth[c] < MaxPanicDepth
    /\ depth' = [depth EXCEPT ![c] = depth[c] + 1]
    /\ \E f \in FrameSizes : sp' = [sp EXCEPT ![c] = sp[c] - f]
    /\ pc' = [pc EXCEPT ![c] = PanicEntry(handler)]
    /\ UNCHANGED << config, x0, x1, zf, mem, stores, writes >>

FaultStep(c) ==
    \/ \E info \in Payloads : Panic(c, info)
    \/ PanicWfe(c) \/ PanicLoop(c)
    \/ Unimplemented(c)

FaultInit == Boot /\ handler \in PanicHandlers

NextFault == \E c \in Cores : Step(c) \/ FaultStep(c)

SpecFault == FaultInit /\ [][NextFault]_vars

(***************************************************************************)
(* Vocabulary of the properties.                                           *)
(***************************************************************************)
GateLabels  == {"mrs", "and", "gate_cmp", "gate_beq"}
ParkLabels  == {"park_wfe", "park_b"}
SetupLabels == {"mov_sp", "ldr_x0", "ldr_x1"}
ZeroLabels  == {"loop_cmp", "loop_beq", "str", "loop_b"}
MainLabels  == {"main_wfe", "main_b"}

\* the low two bits of the identifier register of core c
LowBits(c) == mpidr[c] % 4

\* the link-time precondition of the zeroing pass
LinkOK == bss_start <= bss_end /\ (bss_end - bss_start) % STRIDE = 0

\* the bytes of [bss_start, bss_end)
BssBytes == { a \in Addrs : bss_start <= a /\ a < bss_end }

\* core c has left the gate on the initialising side, or shows a trace of it
Initialises(c) ==
    \/ pc[c] \in SetupLabels \cup ZeroLabels \cup {"b_main"} \cup MainLabels
    \/ sp[c] # spReset
    \/ stores[c] > 0

\* the zeroing pass of core c is over
Zeroed(c) == pc[c] \in {"b_main"} \cup MainLabels

\* the 8-byte words of [bss_start, bss_end)
BssWords ==
    { w \in Words : bss_start <= w * STRIDE /\ (w + 1) * STRIDE <= bss_end }

\* every word has received at most one store, the words outside the region
\* none, the words of the region exactly one once a zeroing pass is over; and
\* at most one core is in main
ClearedOnce ==
    /\ \A w \in Words : writes[w] <= 1
    /\ \A w \in Words \ BssWords : writes[w] = 0
    /\ (\E c \in Cores : Zeroed(c)) => \A w \in BssWords : writes[w] = 1
    /\ Cardinality({ c \in Cores : pc[c] \in MainLabels }) <= 1

\* the identifiers differ in their low two bits
DistinctMasked ==
    \A c, d \in Cores : c # d => LowBits(c) # LowBits(d)

\* at most one core has an identifier whose low two bits are zero
SinglePrimary == Cardinality({ c \in Cores : LowBits(c) = 0 }) <= 1

C3_BssZeroedOnly ==
    LinkOK =>
      \A c \in Cores :
        Zeroed(c) =>
          /\ \A a \in BssBytes : mem[a] = 0
          /\ \A a \in Addrs \ BssBytes : mem[a] = mem0[a]

\* a region of two words or more that held non-zero bytes has been zeroed,
\* with non-zero bytes left just below and at bss_end
C3_Witness ==
    /\ LinkOK
    /\ bss_end - bss_start >= 2 * STRIDE
    /\ bss_end \in Addrs
    /\ \E c \in Cores : pc[c] = "b_main"
    /\ \A a \in BssBytes : mem0[a] # 0 /\ mem[a] = 0
    /\ mem[bss_start - STRIDE] # 0 /\ mem[bss_end] # 0

(***************************************************************************)
(* C4.  When a core with identifier 0 is at the hand-off branch, its stack *)
(* pointer is 0x1FFF0000, whatever it was at reset and whatever the size   *)
(* of the BSS region.                                                      *)
(***************************************************************************)
C4_StackAtHandOff ==
    \A c \in Cores : (mpidr[c] = 0 /\ pc[c] = "b_main") => sp[c] = STACK_TOP

\* core 0 is at the hand-off and left reset with another stack pointer
C4_Witness ==
    \E c \in Cores :
        /\ mpidr[c] = 0 /\ pc[c] = "b_main"
        /\ spReset # STACK_TOP /\ bss_end > bss_start

(***************************************************************************)
(* C5.  With bss_start <= bss_end and a length that is a multiple of 8, a  *)
(* core with identifier 0 eventually reaches main; whenever a core stands  *)
(* at the hand-off branch it has executed exactly                          *)
(* (bss_end - bss_start) / 8 stores and its pointer equals bss_end.        *)
(***************************************************************************)
C5_ZeroingTerminates ==
    /\ [](LinkOK =>
            \A c \in Cores :
              pc[c] = "b_main" =>
                /\ stores[c] = (bss_end - bss_start) \div STRIDE
                /\ x0[c] = bss_end)
    /\ \A c \in Cores :
          (mpidr[c] = 0 /\ LinkOK) => <>(pc[c] \in MainLabels)

\* core 0 has reached main after two stores or more
C5_Witness ==
    \E c \in Cores :
        /\ mpidr[c] = 0 /\ LinkOK
        /\ pc[c] = "main_wfe" /\ stores[c] >= 2

C7_FaultSinkIdles ==
    \A c \in Cores : depth[c] > 0 => pc[c] \in {"panic_wfe", "panic_loop"}

C9_MainNeverReturns ==
    [][\A c \in Cores :
         pc[c] \in MainLabels =>
           /\ pc'[c] \in MainLabels
           /\ sp'[c] = sp[c]
           /\ Step(c) => mem' = mem]_vars

\* a core has executed main's wfe after zeroing the region
C9_Witness ==
    \E c \in Cores : pc[c] = "main_b" /\ stores[c] > 0 /\ sp[c] = STACK_TOP

(***************************************************************************)
(* C10.  The steps of start() happen in the order gate, stack, zero, jump. *)
(* The states of the component, by program counter:                        *)
(***************************************************************************)
Phase(l) ==
    CASE l \in {"mrs", "and"}                        -> "Reset"
      [] l \in {"gate_cmp", "gate_beq", "mov_sp"}    -> "Identified"
      [] l \in ParkLabels                            -> "Parked"
      [] l \in {"ldr_x0", "ldr_x1"} \cup ZeroLabels  -> "StackReady"
      [] l = "b_main"                                -> "BssCleared"
      [] l \in MainLabels                            -> "HandedOff"
      [] OTHER                                       -> "Fault"

\* the linear transitions, and the branch to Parked
PhaseEdges ==
    { <<"Reset", "Identified">>, <<"Identified", "StackReady">>,
      <<"StackReady", "BssCleared">>, <<"BssCleared", "HandedOff">>,
      <<"Identified", "Parked">> }

StackIsSet == {"StackReady", "BssCleared", "HandedOff"}

(* Every step of a core stays in its state or follows one of the edges     *)
(* Reset -> Identified -> StackReady -> BssCleared -> HandedOff or         *)
(* Identified -> Parked (so no state is visited twice and Parked is never  *)
(* left); the stack pointer is the configured one exactly from StackReady  *)
(* on; a store happens only in StackReady, with the stack pointer set, and *)
(* a core that has stored is in StackReady or beyond.                      *)
C10_GateStackZeroJump ==
    /\ [](\A c \in Cores :
            /\ Phase(pc[c]) \in StackIsSet <=> sp[c] = STACK_TOP
            /\ stores[c] > 0 => Phase(pc[c]) \in StackIsSet)
    /\ [][\A c \in Cores :
            /\ \/ Phase(pc'[c]) = Phase(pc[c])
               \/ <<Phase(pc[c]), Phase(pc'[c])>> \in PhaseEdges
            /\ (Step(c) /\ (mem' # mem \/ stores' # stores))
                  => (Phase(pc[c]) = "StackReady" /\ sp[c] = STACK_TOP)]_vars

\* a core has gone through every state up to HandedOff, storing on the way
C10_Witness ==
    \E c \in Cores :
        Phase(pc[c]) = "HandedOff" /\ stores[c] >= 2 /\ sp[c] = STACK_TOP

(***************************************************************************)
(* C11.  When bss_start = bss_end, no core ever executes the store: the    *)
(* first evaluation of the loop guard branches to the hand-off, and memory *)
(* keeps the contents it had at reset.                                     *)
(***************************************************************************)
C11_EmptyRegionNoStore ==
    /\ [](bss_start = bss_end =>
            /\ mem = mem0
            /\ \A w \in Words : writes[w] = 0
            /\ \A c \in Cores :
                  stores[c] = 0 /\ pc[c] \notin {"str", "loop_b"})
    /\ [][\A c \in Cores :
            (bss_start = bss_end /\ pc[c] = "loop_beq" /\ Step(c))
              => pc'[c] = "b_main"]_vars

\* with an empty region a core stands at the hand-off, memory untouched
C11_Witness ==
    /\ bss_start = bss_end
    /\ \E c \in Cores : pc[c] = "b_main" /\ stores[c] = 0
    /\ mem = mem0 /\ \E a \in Addrs : mem[a] # 0

(***************************************************************************)
(* C12.  A core with identifier 0 is never in the parking loop of start(): *)
(* not before the zeroing pass, not during it, not between the pass and    *)
(* the hand-off, and not after it.                                         *)
(***************************************************************************)
C12_PrimaryNeverParks ==
    \A c \in Cores : mpidr[c] = 0 => pc[c] \notin ParkLabels

\* core 0 is between the zeroing pass and the hand-off, having stored
C12_Witness ==
    \E c \in Cores : mpidr[c] = 0 /\ pc[c] = "b_main" /\ stores[c] > 0

(***************************************************************************)
(* C13.  The fault sink has no side effect from any state of the boot      *)
(* sequence: every step of it, the entry included, leaves all of memory    *)
(* and every stack pointer unchanged and puts the core on the idle loop    *)
(* of the handler.                                                         *)
(***************************************************************************)
C13_FaultSinkInert ==
    [][\A c \in Cores :
         FaultStep(c) =>
           /\ mem' = mem
           /\ sp' = sp
           /\ pc'[c] \in {"panic_wfe", "panic_loop"}]_vars

Unaligned == (bss_end - bss_start) % STRIDE # 0

(***************************************************************************)
(* C15.  With addresses wrapping at the width of a pointer, a region whose *)
(* length is not a multiple of 8 is never finished: in the loop the        *)
(* pointer never equals bss_end and no core reaches the hand-off or        *)
(* main; a core that passes the gate executes the store again and again,   *)
(* and a byte at or beyond bss_end is overwritten with zero.               *)
(***************************************************************************)
C15_UnalignedNeverTerminates ==
    /\ [](Unaligned =>
            \A c \in Cores :
               /\ pc[c] \in ZeroLabels => x0[c] # bss_end
               /\ ~Zeroed(c))
    /\ \A c \in Cores :
          (Unaligned /\ LowBits(c) = 0) =>
            /\ []<>(pc[c] = "str")
            /\ <>(\E a \in Addrs :
                     /\ a >= bss_end
                     /\ writes[a \div STRIDE] > 0
                     /\ mem[a] = 0)

\* the pointer has gone round the whole address space and the loop goes on;
\* the byte at bss_end has lost its reset value
C15_Witness ==
    /\ Unaligned
    /\ \E c \in Cores : stores[c] > MemWords /\ pc[c] = "loop_cmp"
    /\ mem[bss_end] = 0 /\ mem0[bss_end] # 0

\* the loop invariant of the zeroing pass at the guard, for core c
LoopInv(c) ==
    pc[c] = "loop_cmp" =>
      /\ bss_start <= x0[c] /\ x0[c] <= bss_end
      /\ (x0[c] - bss_start) % STRIDE = 0
      /\ \A a \in Addrs : (bss_start <= a /\ a < x0[c]) => mem[a] = 0
      /\ \A a \in Addrs : (x0[c] <= a /\ a < bss_end) => mem[a] = mem0[a]

=============================================================================
